---- MODULE Spec2Model ----
(***************************************************************************)
(* Model of dirs-lite (src/src/lib.rs): config_dir, data_dir, cache_dir.   *)
(*                                                                         *)
(* An OsString / PathBuf is a sequence of bytes; a byte is written as a    *)
(* one-character string, "xFF" standing for a byte that is not valid       *)
(* UTF-8.  Option<T> is a record [some, v].  The process environment maps  *)
(* every key to an Option<OsString> (None = unset).                        *)
(***************************************************************************)
EXTENDS Naturals, Sequences, FiniteSets, TLC

VARIABLES
    target_os,          \* cfg!(target_os = ...), fixed by the build
    favor_xdg_style,    \* cfg!(feature = "favor-xdg-style"), fixed by the build
    empty_home_is_unset,\* toolchain: does std::env::home_dir skip an empty HOME
    passwd_home,        \* what the OS account database gives home_dir as fallback
    env,                \* the process environment
    ret                 \* the query just made and what it returned
                        \* (op = "none": the last step was no query)

vars == <<target_os, favor_xdg_style, empty_home_is_unset, passwd_home, env, ret>>

(* ------------------------------ bounds --------------------------------- *)

\* at most this many environment variables are set at the same time
MaxVars == 2

(* ------------------------------ Option --------------------------------- *)

None == [some |-> FALSE, v |-> <<>>]

Some(x) == [some |-> TRUE, v |-> x]

(* ----------------------------- constants ------------------------------- *)

CONFIG_DIR == <<".", "c", "o", "n", "f", "i", "g">>

DATA_DIR == <<".", "l", "o", "c", "a", "l", "/", "s", "h", "a", "r", "e">>

CACHE_DIR == <<".", "c", "a", "c", "h", "e">>

Library == <<"L", "i", "b", "r", "a", "r", "y">>

ApplicationSupport ==
    <<"A", "p", "p", "l", "i", "c", "a", "t", "i", "o", "n", " ",
      "S", "u", "p", "p", "o", "r", "t">>

Caches == <<"C", "a", "c", "h", "e", "s">>

OSes == {"linux", "macos", "windows", "other"}

EnvKeys ==
    {"XDG_CONFIG_HOME", "XDG_DATA_HOME", "XDG_CACHE_HOME",
     "HOME", "APPDATA", "LOCALAPPDATA"}

\* the values the environment and the account database are given
OsStrings ==
    { <<>>,                         \* the empty string
      <<"/", "a">>,                 \* an absolute Unix path
      <<"a">>,                      \* a relative path
      <<"/", "xFF", "/">>,          \* not valid UTF-8, with a trailing separator
      <<"C", ":", "\\", "a">> }     \* an absolute Windows path

PasswdHomes == {None, Some(<<"/", "r">>)}

(* ------------------------- library primitives -------------------------- *)

\* env::var_os(key)
var_os(e, key) == e[key]

\* .filter(|s| !s.is_empty()) with the filter left out
filter_keep_empty(o) == o

\* .filter(|s| !s.is_empty())
filter_not_empty(o) == IF o.some /\ o.v # <<>> THEN o ELSE None

\* std::env::home_dir() on a Unix target: HOME, else the account database.
\* Toolchains differ on an empty HOME: older ones return it, newer ones
\* treat it as unset.
home_dir(e, pw, ehu) ==
    IF e["HOME"].some /\ ~(ehu /\ e["HOME"].v = <<>>) THEN e["HOME"] ELSE pw

\* Path::is_absolute on a Unix target
unix_is_absolute(p) == Len(p) > 0 /\ p[1] = "/"

\* Path::is_absolute on a Windows target: a drive prefix followed by a root
\* separator (UNC and verbatim prefixes are outside the values modelled)
windows_is_absolute(p) ==
    Len(p) >= 3 /\ p[1] \in {"C", "a"} /\ p[2] = ":" /\ p[3] \in {"\\", "/"}

\* Path::is_absolute per target
is_absolute(os, p) ==
    IF os = "windows" THEN windows_is_absolute(p) ELSE unix_is_absolute(p)

\* PathBuf::push that concatenates with no separator
push_concat(buf, path) == buf \o path

\* PathBuf::push that replaces the buffer
push_replace(buf, path) == path

\* PathBuf::push(path) on a Unix target
push(buf, path) ==
    IF unix_is_absolute(path) THEN path
    ELSE IF Len(buf) > 0 /\ buf[Len(buf)] # "/" THEN buf \o <<"/">> \o path
    ELSE buf \o path

\* Option::map(|mut base| { base.push(s); base })
map_push(o, s) == IF o.some THEN Some(push(o.v, s)) ELSE None

\* Option::or_else
or_else(o, alt) == IF o.some THEN o ELSE alt

(* ----------------------------- config_dir ------------------------------ *)

\* config_dir on Linux returning a set XDG_CONFIG_HOME as it is
config_dir_linux_xdg_verbatim(e, pw, ehu) ==
    or_else(filter_not_empty(var_os(e, "XDG_CONFIG_HOME")),
            map_push(home_dir(e, pw, ehu), CONFIG_DIR))

config_dir_linux(e, pw, ehu) ==
    map_push(or_else(filter_not_empty(var_os(e, "XDG_CONFIG_HOME")),
                     home_dir(e, pw, ehu)),
             CONFIG_DIR)

\* config_dir on macOS with the feature test left out
config_dir_macos_no_flag(favor, e, pw, ehu) ==
    map_push(map_push(home_dir(e, pw, ehu), Library), ApplicationSupport)

config_dir_macos(favor, e, pw, ehu) ==
    IF favor THEN map_push(home_dir(e, pw, ehu), CONFIG_DIR)
    ELSE map_push(map_push(home_dir(e, pw, ehu), Library), ApplicationSupport)

\* config_dir on Windows falling back to HOME
config_dir_windows_home_fallback(e) ==
    or_else(filter_not_empty(var_os(e, "APPDATA")), var_os(e, "HOME"))

config_dir_windows(e) == filter_not_empty(var_os(e, "APPDATA"))

config_dir(os, favor, e, pw, ehu) ==
    IF os = "linux" THEN config_dir_linux(e, pw, ehu)
    ELSE IF os = "macos" THEN config_dir_macos(favor, e, pw, ehu)
    ELSE IF os = "windows" THEN config_dir_windows(e)
    ELSE None

(* ------------------------------ data_dir ------------------------------- *)

\* data_dir on Linux pushing the suffix onto a set XDG_DATA_HOME too
data_dir_linux_push_xdg(e, pw, ehu) ==
    map_push(or_else(filter_not_empty(var_os(e, "XDG_DATA_HOME")),
                     home_dir(e, pw, ehu)),
             DATA_DIR)

data_dir_linux(e, pw, ehu) ==
    or_else(filter_not_empty(var_os(e, "XDG_DATA_HOME")),
            map_push(home_dir(e, pw, ehu), DATA_DIR))

\* data_dir on macOS reading XDG_DATA_HOME under the feature
data_dir_macos_xdg_env(favor, e, pw, ehu) ==
    IF favor THEN data_dir_linux(e, pw, ehu)
    ELSE map_push(map_push(home_dir(e, pw, ehu), Library), ApplicationSupport)

data_dir_macos(favor, e, pw, ehu) ==
    IF favor THEN map_push(home_dir(e, pw, ehu), DATA_DIR)
    ELSE map_push(map_push(home_dir(e, pw, ehu), Library), ApplicationSupport)

data_dir_windows(e) == filter_not_empty(var_os(e, "LOCALAPPDATA"))

\* data_dir testing the feature before the target OS on Unix targets
data_dir_feature_first(os, favor, e, pw, ehu) ==
    IF favor /\ os \in {"linux", "macos"} THEN map_push(home_dir(e, pw, ehu), DATA_DIR)
    ELSE IF os = "linux" THEN data_dir_linux(e, pw, ehu)
    ELSE IF os = "macos" THEN data_dir_macos(favor, e, pw, ehu)
    ELSE IF os = "windows" THEN data_dir_windows(e)
    ELSE None

data_dir(os, favor, e, pw, ehu) ==
    IF os = "linux" THEN data_dir_linux(e, pw, ehu)
    ELSE IF os = "macos" THEN data_dir_macos(favor, e, pw, ehu)
    ELSE IF os = "windows" THEN data_dir_windows(e)
    ELSE None

(* ------------------------------ cache_dir ------------------------------ *)

\* cache_dir on Linux with the home fallback left out
cache_dir_linux_no_fallback(e, pw, ehu) ==
    filter_not_empty(var_os(e, "XDG_CACHE_HOME"))

cache_dir_linux(e, pw, ehu) ==
    or_else(filter_not_empty(var_os(e, "XDG_CACHE_HOME")),
            map_push(home_dir(e, pw, ehu), CACHE_DIR))

cache_dir_macos(favor, e, pw, ehu) ==
    IF favor THEN map_push(home_dir(e, pw, ehu), CACHE_DIR)
    ELSE map_push(map_push(home_dir(e, pw, ehu), Library), Caches)

cache_dir_windows(e) == filter_not_empty(var_os(e, "LOCALAPPDATA"))

cache_dir(os, favor, e, pw, ehu) ==
    IF os = "linux" THEN cache_dir_linux(e, pw, ehu)
    ELSE IF os = "macos" THEN cache_dir_macos(favor, e, pw, ehu)
    ELSE IF os = "windows" THEN cache_dir_windows(e)
    ELSE None

(* --------------------------- the state machine ------------------------- *)

NumSet(e) == Cardinality({k \in EnvKeys : e[k].some})

Init ==
    /\ target_os \in OSes
    /\ favor_xdg_style \in BOOLEAN
    /\ empty_home_is_unset \in BOOLEAN
    /\ passwd_home \in PasswdHomes
    /\ env = [k \in EnvKeys |-> None]
    /\ ret = [op |-> "none", val |-> None]

\* env::set_var(key, value)
set_var ==
    \E k \in EnvKeys, x \in OsStrings :
        /\ env[k].some \/ NumSet(env) < MaxVars
        /\ env' = [env EXCEPT ![k] = Some(x)]
        /\ ret' = [op |-> "none", val |-> None]
        /\ UNCHANGED <<target_os, favor_xdg_style, empty_home_is_unset, passwd_home>>

\* env::remove_var(key)
remove_var ==
    \E k \in EnvKeys :
        /\ env[k].some
        /\ env' = [env EXCEPT ![k] = None]
        /\ ret' = [op |-> "none", val |-> None]
        /\ UNCHANGED <<target_os, favor_xdg_style, empty_home_is_unset, passwd_home>>

\* config_dir answering from a value resolved once, when the process started
ConfigDir_startup_cache ==
    /\ ret' = [op |-> "config_dir",
               val |-> config_dir(target_os, favor_xdg_style,
                                  [k \in EnvKeys |-> None],
                                  passwd_home, empty_home_is_unset)]
    /\ UNCHANGED <<target_os, favor_xdg_style, empty_home_is_unset, passwd_home, env>>

ConfigDir ==
    /\ ret' = [op |-> "config_dir",
               val |-> config_dir(target_os, favor_xdg_style, env,
                                  passwd_home, empty_home_is_unset)]
    /\ UNCHANGED <<target_os, favor_xdg_style, empty_home_is_unset, passwd_home, env>>

DataDir ==
    /\ ret' = [op |-> "data_dir",
               val |-> data_dir(target_os, favor_xdg_style, env,
                                passwd_home, empty_home_is_unset)]
    /\ UNCHANGED <<target_os, favor_xdg_style, empty_home_is_unset, passwd_home, env>>

CacheDir ==
    /\ ret' = [op |-> "cache_dir",
               val |-> cache_dir(target_os, favor_xdg_style, env,
                                 passwd_home, empty_home_is_unset)]
    /\ UNCHANGED <<target_os, favor_xdg_style, empty_home_is_unset, passwd_home, env>>

Next == set_var \/ remove_var \/ ConfigDir \/ DataDir \/ CacheDir

Spec == Init /\ [][Next]_vars

(* ------------------------ vocabulary of the claims --------------------- *)

\* the names between the separators of a Unix path, empty names dropped
RECURSIVE Split(_, _)
Split(p, cur) ==
    IF p = <<>> THEN (IF cur = <<>> THEN <<>> ELSE <<cur>>)
    ELSE IF Head(p) = "/"
         THEN (IF cur = <<>> THEN <<>> ELSE <<cur>>) \o Split(Tail(p), <<>>)
         ELSE Split(Tail(p), Append(cur, Head(p)))

Components(p) == Split(p, <<>>)

HasRoot(p) == Len(p) > 0 /\ Head(p) = "/"

IsPrefix(a, b) == Len(a) <= Len(b) /\ SubSeq(b, 1, Len(a)) = a

\* r is base with the names in comps joined onto it: the bytes of base come
\* first, unchanged, and r names base's components followed by comps
JoinedWith(base, comps, r) ==
    /\ IsPrefix(base, r)
    /\ HasRoot(r) = HasRoot(base)
    /\ Components(r) = Components(base) \o comps

\* the home directory as the queries see it in the current state
Home == home_dir(env, passwd_home, empty_home_is_unset)

\* key is set to a non-empty value
SetNonEmpty(key) == env[key].some /\ env[key].v # <<>>

OptOsStrings == {None} \cup {Some(x) : x \in OsStrings}

Query(e, pw) ==
    IF ret.op = "config_dir"
    THEN config_dir(target_os, favor_xdg_style, e, pw, empty_home_is_unset)
    ELSE IF ret.op = "data_dir"
    THEN data_dir(target_os, favor_xdg_style, e, pw, empty_home_is_unset)
    ELSE cache_dir(target_os, favor_xdg_style, e, pw, empty_home_is_unset)

\* the query just made returns the same whatever the home directory is
HomeHasNoInfluence ==
    \A h \in OptOsStrings, pw \in PasswdHomes :
        Query([env EXCEPT !["HOME"] = h], pw) = ret.val

(* -------------------------------- claims ------------------------------- *)

C2_LinuxDataCacheXdgVerbatim ==
    /\ (target_os = "linux" /\ ret.op = "data_dir" /\ SetNonEmpty("XDG_DATA_HOME"))
         => (ret.val = Some(env["XDG_DATA_HOME"].v) /\ HomeHasNoInfluence)
    /\ (target_os = "linux" /\ ret.op = "cache_dir" /\ SetNonEmpty("XDG_CACHE_HOME"))
         => (ret.val = Some(env["XDG_CACHE_HOME"].v) /\ HomeHasNoInfluence)

C2_Witness ==
    /\ target_os = "linux" /\ ret.op = "data_dir"
    /\ env["XDG_DATA_HOME"] = Some(<<"/", "xFF", "/">>)
    /\ env["HOME"] = Some(<<"/", "a">>)
    /\ ret.val = Some(<<"/", "xFF", "/">>)

\* C3: on Linux, with the query's XDG variable unset and a home directory h
\* available, config_dir() is h joined with ".config", data_dir() is h
\* joined with ".local/share", cache_dir() is h joined with ".cache".
C3_LinuxHomeFallback ==
    (target_os = "linux" /\ Home.some) =>
        /\ (ret.op = "config_dir" /\ ~env["XDG_CONFIG_HOME"].some)
             => (ret.val.some /\ JoinedWith(Home.v, <<CONFIG_DIR>>, ret.val.v))
        /\ (ret.op = "data_dir" /\ ~env["XDG_DATA_HOME"].some)
             => (ret.val.some
                 /\ JoinedWith(Home.v, <<SubSeq(DATA_DIR, 1, 6), SubSeq(DATA_DIR, 8, 12)>>,
                               ret.val.v))
        /\ (ret.op = "cache_dir" /\ ~env["XDG_CACHE_HOME"].some)
             => (ret.val.some /\ JoinedWith(Home.v, <<CACHE_DIR>>, ret.val.v))

C3_Witness ==
    /\ target_os = "linux" /\ ret.op = "data_dir"
    /\ ~env["XDG_DATA_HOME"].some
    /\ env["HOME"] = Some(<<"/", "a">>)
    /\ ret.val = Some(<<"/", "a", "/">> \o DATA_DIR)


\* the variables the queries read themselves (home_dir reads HOME)
QueryKeys == EnvKeys \ {"HOME"}

\* C4: for each query on each OS, and each variable it consults
\* (XDG_CONFIG_HOME, XDG_DATA_HOME, XDG_CACHE_HOME, APPDATA, LOCALAPPDATA),
\* the result with the variable set to the empty string is the result with
\* the variable unset: whenever the variable is empty or unset, the value
\* just returned is what both environments give.
C4_EmptyIsUnset ==
    ret.op # "none" =>
        \A k \in QueryKeys :
            ~SetNonEmpty(k) =>
                /\ ret.val = Query([env EXCEPT ![k] = Some(<<>>)], passwd_home)
                /\ ret.val = Query([env EXCEPT ![k] = None], passwd_home)

C4_Witness ==
    /\ target_os = "linux" /\ ret.op = "config_dir"
    /\ env["XDG_CONFIG_HOME"] = Some(<<>>)
    /\ env["HOME"] = Some(<<"/", "a">>)
    /\ ret.val = Some(<<"/", "a", "/">> \o CONFIG_DIR)

\* C5: on macOS with a home directory h: without favor-xdg-style,
\* config_dir() and data_dir() are h/Library/Application Support and
\* cache_dir() is h/Library/Caches; with it they are h/.config,
\* h/.local/share and h/.cache.
C5_MacosLayout ==
    (target_os = "macos" /\ Home.some /\ ret.op # "none") =>
        /\ ret.val.some
        /\ JoinedWith(Home.v,
                      IF favor_xdg_style
                      THEN IF ret.op = "config_dir" THEN <<CONFIG_DIR>>
                           ELSE IF ret.op = "data_dir"
                           THEN <<SubSeq(DATA_DIR, 1, 6), SubSeq(DATA_DIR, 8, 12)>>
                           ELSE <<CACHE_DIR>>
                      ELSE IF ret.op = "cache_dir" THEN <<Library, Caches>>
                           ELSE <<Library, ApplicationSupport>>,
                      ret.val.v)

C5_Witness ==
    /\ target_os = "macos" /\ ~favor_xdg_style /\ ret.op = "cache_dir"
    /\ env["HOME"] = Some(<<"/", "a">>)
    /\ ret.val = Some(<<"/", "a", "/">> \o Library \o <<"/">> \o Caches)

XdgKey ==
    IF ret.op = "config_dir" THEN "XDG_CONFIG_HOME"
    ELSE IF ret.op = "data_dir" THEN "XDG_DATA_HOME" ELSE "XDG_CACHE_HOME"

WinKey == IF ret.op = "config_dir" THEN "APPDATA" ELSE "LOCALAPPDATA"

\* the value the result of the query just made is resolved from
Source ==
    IF target_os = "windows" THEN env[WinKey]
    ELSE IF target_os = "linux" /\ SetNonEmpty(XdgKey) THEN env[XdgKey]
    ELSE Home

C8_MacosOnlyHome ==
    (target_os = "macos" /\ ret.op # "none") =>
        /\ \A k \in QueryKeys, x \in OptOsStrings :
               Query([env EXCEPT ![k] = x], passwd_home) = ret.val
        /\ \A h \in OptOsStrings, pw \in PasswdHomes \cup {Some(<<"/", "a">>)} :
               home_dir([env EXCEPT !["HOME"] = h], pw, empty_home_is_unset) = Home
                   => Query([env EXCEPT !["HOME"] = h], pw) = ret.val
        /\ ~Home.some => ret.val = None

C8_Witness ==
    /\ target_os = "macos" /\ favor_xdg_style /\ ret.op = "data_dir"
    /\ env["XDG_DATA_HOME"] = Some(<<"/", "xFF", "/">>)
    /\ env["HOME"] = Some(<<"/", "a">>)
    /\ ret.val = Some(<<"/", "a", "/">> \o DATA_DIR)

\* the cases in which C9 says a query returns absence
Absence ==
    \/ target_os \notin {"linux", "macos", "windows"}
    \/ target_os = "windows" /\ ~SetNonEmpty(WinKey)
    \/ target_os = "macos" /\ ~Home.some
    \/ target_os = "linux" /\ ~SetNonEmpty(XdgKey) /\ ~Home.some

\* C9: a query returns absence if and only if the OS is unsupported, or it
\* is Windows and the query's variable is unset or empty, or it is macOS
\* and there is no home, or it is Linux, the query's XDG variable is unset
\* or empty and there is no home; otherwise it returns a present path.
C9_AbsenceExactly ==
    ret.op # "none" => (ret.val.some <=> ~Absence)

C9_Witness ==
    /\ target_os = "linux" /\ ret.op = "cache_dir"
    /\ env["XDG_CACHE_HOME"] = Some(<<>>)
    /\ ~env["HOME"].some /\ passwd_home = Some(<<"/", "r">>)
    /\ ret.val = Some(<<"/", "r", "/">> \o CACHE_DIR)

\* the row of the decision table for the query just made: the variable and
\* the components joined onto home, either of which may be missing
Row ==
    LET xdg == IF ret.op = "config_dir" THEN <<CONFIG_DIR>>
               ELSE IF ret.op = "data_dir"
               THEN <<SubSeq(DATA_DIR, 1, 6), SubSeq(DATA_DIR, 8, 12)>>
               ELSE <<CACHE_DIR>>
        apple == IF ret.op = "cache_dir" THEN <<Library, Caches>>
                 ELSE <<Library, ApplicationSupport>>
    IN  IF target_os = "linux" THEN [key |-> Some(XdgKey), suffix |-> Some(xdg)]
        ELSE IF target_os = "macos"
        THEN [key |-> None, suffix |-> Some(IF favor_xdg_style THEN xdg ELSE apple)]
        ELSE IF target_os = "windows" THEN [key |-> Some(WinKey), suffix |-> None]
        ELSE [key |-> None, suffix |-> None]

\* C10: each query returns resolve(env_key, home_suffix) of its row: the
\* row's variable itself when it is set and non-empty, else home joined
\* with the row's suffix when there is a home, else absence.
C10_IsResolveOfRow ==
    ret.op # "none" =>
        IF Row.key.some /\ SetNonEmpty(Row.key.v)
        THEN ret.val = Some(env[Row.key.v].v)
        ELSE IF Row.suffix.some /\ Home.some
        THEN ret.val.some /\ JoinedWith(Home.v, Row.suffix.v, ret.val.v)
        ELSE ret.val = None

\* C11: in any interleaving of environment changes and queries, every query
\* returns the resolution of the environment as it is when the query is
\* made, never that of an earlier environment, and a query repeated with
\* no environment change in between returns the same result.
C11_SnapshotRead ==
    /\ [](ret.op # "none" => ret.val = Query(env, passwd_home))
    /\ [][(ret.op # "none" /\ ret'.op = ret.op /\ env' = env)
             => ret'.val = ret.val]_vars

\* a query made after the environment was changed (it starts with nothing
\* set) returns what the new environment gives, not what the old one gave
C11_Witness ==
    /\ target_os = "linux" /\ ret.op = "config_dir"
    /\ passwd_home = Some(<<"/", "r">>)
    /\ ~env["HOME"].some
    /\ env["XDG_CONFIG_HOME"] = Some(<<"/", "a">>)
    /\ ret.val = Some(<<"/", "a", "/">> \o CONFIG_DIR)
    /\ ret.val # config_dir(target_os, favor_xdg_style, [k \in EnvKeys |-> None],
                            passwd_home, empty_home_is_unset)

\* the query just made, as a build with the given feature setting answers it
\* in the current environment
QueryBuiltWith(favor) ==
    IF ret.op = "config_dir"
    THEN config_dir(target_os, favor, env, passwd_home, empty_home_is_unset)
    ELSE IF ret.op = "data_dir"
    THEN data_dir(target_os, favor, env, passwd_home, empty_home_is_unset)
    ELSE cache_dir(target_os, favor, env, passwd_home, empty_home_is_unset)

\* C12: on Linux and on Windows each query returns the same result with
\* favor-xdg-style enabled as with it disabled, in every environment and
\* for every home; the feature changes results on macOS only (there, with
\* a home, it does change them).
C12_FeatureOnlyOnMacos ==
    ret.op # "none" =>
        /\ target_os # "macos" =>
               /\ ret.val = QueryBuiltWith(TRUE)
               /\ ret.val = QueryBuiltWith(FALSE)
        /\ (target_os = "macos" /\ Home.some) =>
               QueryBuiltWith(TRUE) # QueryBuiltWith(FALSE)

C12_Witness ==
    /\ target_os = "linux" /\ favor_xdg_style /\ ret.op = "data_dir"
    /\ env["XDG_DATA_HOME"] = Some(<<"/", "xFF", "/">>)
    /\ env["HOME"] = Some(<<"/", "a">>)
    /\ ret.val = Some(<<"/", "xFF", "/">>)

====
